---- MODULE Spec2Model ----
(***************************************************************************)
(* BleLink: newline-framed transport over the Nordic UART Service.         *)
(* Model of esp32/src/BleLink.cpp (library) and of the receive handlers    *)
(* that esp32/src/main.cpp registers.                                      *)
(*                                                                         *)
(* Bytes are integers 0..255, strings are sequences of bytes.              *)
(* Time is millis() in milliseconds; all runs are far shorter than the     *)
(* 2^32 ms wrap of uint32_t, so millis() - last is the plain difference.   *)
(* The clock is observed on a grid of TickStep ms: the settle delays of     *)
(* loop() advance it, the 2 ms pacing delays of a send lie below the grid   *)
(* and their time passes with the next Tick.                                *)
(***************************************************************************)
EXTENDS Integers, Sequences, FiniteSets, TLC

(* ------------------------------ bounds --------------------------------- *)
MaxTime    == 1200  \* runs stop advancing the clock after this many ms
MaxChunk   == 2     \* longest inbound chunk drawn from the byte alphabet
MaxBuf     == 2     \* longest remainder kept in g_rxBuf between writes
MaxSendLen == 47    \* longest text body handed to sendRaw or sent by the peer
MaxStream  == 5     \* longest byte stream L1\n..Ln\n of a reassembly run

(* --------------------------- program constants ------------------------- *)
DEBOUNCE     == 300   \* BleLink.cpp:21, :32
CHUNK        == 20    \* BleLink.cpp:168
SETTLE_PRE   == 150   \* BleLink.cpp:105  delay(150)
SETTLE_POST  == 250   \* BleLink.cpp:107  delay(250)

NUL == 0
NL  == 10

(* ------------------------------ strings -------------------------------- *)
Digit(b) == b >= 48 /\ b <= 57

RECURSIVE Find(_, _, _)
\* std::string::find(c) from index i (1-based); 0 stands for npos
Find(s, c, i) ==
  IF i > Len(s) THEN 0
  ELSE IF s[i] = c THEN i ELSE Find(s, c, i + 1)

\* what a const char* view of the bytes holds: everything before the first NUL
CStr(s) ==
  LET p == Find(s, NUL, 1) IN IF p = 0 THEN s ELSE SubSeq(s, 1, p - 1)

\* String::endsWith("\n")
EndsWithNL(s) == Len(s) > 0 /\ s[Len(s)] = NL

\* mutant: the newline is appended without looking at the text
FramedAlways(s) == Append(s, NL)

\* if (!s.endsWith("\n")) s += "\n";
Framed(s) == IF EndsWithNL(s) THEN s ELSE Append(s, NL)

RECURSIVE Flatten(_)
Flatten(ss) == IF ss = <<>> THEN <<>> ELSE Head(ss) \o Flatten(Tail(ss))

(* ----------------------- structured-document codec --------------------- *)
\* The codec is an external collaborator.  Documents are the naturals; a
\* line parses iff it is a non-empty string of decimal digits.
RECURSIVE DecValue(_)
DecValue(s) ==
  IF s = <<>> THEN 0 ELSE 10 * DecValue(SubSeq(s, 1, Len(s) - 1)) + (s[Len(s)] - 48)

\* deserializeJson(doc, line): [err, doc]
DeserializeJson(line) ==
  IF line # <<>> /\ \A i \in 1..Len(line) : Digit(line[i])
  THEN [err |-> FALSE, doc |-> DecValue(line)]
  ELSE [err |-> TRUE,  doc |-> 0]

RECURSIVE SerializeJson(_)
\* serializeJson(doc, s)
SerializeJson(doc) ==
  IF doc < 10 THEN <<48 + doc>>
  ELSE Append(SerializeJson(doc \div 10), 48 + (doc % 10))

(* --------------------------- outbound chunker -------------------------- *)
RECURSIVE FragLoopNoTail(_, _)
\* mutant: loop condition i + CHUNK <= len, the short last fragment is lost
FragLoopNoTail(s, i) ==
  IF i + CHUNK > Len(s) THEN <<>>
  ELSE <<SubSeq(s, i + 1, i + CHUNK)>> \o FragLoopNoTail(s, i + CHUNK)

RECURSIVE FragLoopOverlap(_, _)
\* mutant: the index advances by the bytes sent less one
FragLoopOverlap(s, i) ==
  IF i >= Len(s) THEN <<>>
  ELSE LET n == IF Len(s) - i < CHUNK THEN Len(s) - i ELSE CHUNK
       IN  <<SubSeq(s, i + 1, i + n)>>
             \o (IF n = CHUNK THEN FragLoopOverlap(s, i + CHUNK - 1) ELSE <<>>)

RECURSIVE FragLoop(_, _)
\* for (i = 0; i < len; i += CHUNK) { n = min(len - i, CHUNK); notify(s+i, n) }
\* i is the 0-based loop index; the result is the notified fragments in order
FragLoop(s, i) ==
  IF i >= Len(s) THEN <<>>
  ELSE LET n == IF Len(s) - i < CHUNK THEN Len(s) - i ELSE CHUNK
       IN  <<SubSeq(s, i + 1, i + n)>> \o FragLoop(s, i + CHUNK)

\* mutant: the connection state is not looked at
SendLineNoGate(cstr, connected, tx) ==
  IF ~tx THEN <<>> ELSE FragLoop(CStr(cstr), 0)

\* BleLink::_sendLine: fragments notified for the C string cstr
\* (connected: g_connected, tx: g_tx is not null)
SendLine(cstr, connected, tx) ==
  IF ~connected \/ ~tx THEN <<>> ELSE FragLoop(CStr(cstr), 0)

(* ---------------------------- frame reassembler ------------------------ *)
\* mutant: an if in place of the while, one line per write at most
ExtractOnce(buf) ==
  LET pos == Find(buf, NL, 1) IN
  IF pos = 0 THEN [lines |-> <<>>, rest |-> buf]
  ELSE [lines |-> <<SubSeq(buf, 1, pos - 1)>>,
        rest |-> SubSeq(buf, pos + 1, Len(buf))]

RECURSIVE ExtractLoopKeepNL(_)
\* mutant: the delimiter of the last line extracted is not erased
ExtractLoopKeepNL(buf) ==
  LET pos == Find(buf, NL, 1) IN
  IF pos = 0 THEN [lines |-> <<>>, rest |-> buf]
  ELSE IF Find(buf, NL, pos + 1) = 0
  THEN [lines |-> <<SubSeq(buf, 1, pos - 1)>>, rest |-> SubSeq(buf, pos, Len(buf))]
  ELSE LET r == ExtractLoopKeepNL(SubSeq(buf, pos + 1, Len(buf)))
       IN  [lines |-> <<SubSeq(buf, 1, pos - 1)>> \o r.lines, rest |-> r.rest]

RECURSIVE ExtractLoop(_)
\* while ((pos = g_rxBuf.find('\n')) != npos) { line = substr(0,pos); erase(0,pos+1) }
\* [lines: the lines in extraction order, rest: g_rxBuf when the loop ends]
ExtractLoop(buf) ==
  LET pos == Find(buf, NL, 1) IN
  IF pos = 0 THEN [lines |-> <<>>, rest |-> buf]
  ELSE LET r == ExtractLoop(SubSeq(buf, pos + 1, Len(buf)))
       IN  [lines |-> <<SubSeq(buf, 1, pos - 1)>> \o r.lines, rest |-> r.rest]

(* ------------------------- application handlers ------------------------ *)
PING == <<80, 73, 78, 71>>
PONG == <<80, 79, 78, 71>>

\* BleLink::sendRaw: the fragments notified for the text cstr
SendRawFrags(cstr, connected, tx) == SendLine(Framed(CStr(cstr)), connected, tx)

\* BleLink::sendJson: the fragments notified for the document doc
SendJsonFrags(doc, connected, tx) == SendLine(Framed(SerializeJson(doc)), connected, tx)

\* main.cpp raw handler: prints the line, answers "PING" with sendRaw("PONG")
AppRawHandler(line, connected, tx) ==
  IF line = PING THEN SendRawFrags(PONG, connected, tx) ELSE <<>>

\* main.cpp structured handler: prints the document; it replies only to a
\* document with "op":"echo", which no document of this codec has
AppJsonHandler(doc, connected, tx) == <<>>

\* mutant: an empty line is skipped before it is parsed
DispatchLineSkipEmpty(line, jcb, rcb, connected, tx) ==
  LET p == DeserializeJson(line) IN
  IF line = <<>>
  THEN [line |-> line, json |-> <<>>, raw |-> <<>>, frags |-> <<>>]
  ELSE IF ~p.err
  THEN [line |-> line, json |-> IF jcb THEN <<p.doc>> ELSE <<>>, raw |-> <<>>,
        frags |-> <<>>]
  ELSE [line |-> line, json |-> <<>>,
        raw |-> IF rcb THEN <<CStr(line)>> ELSE <<>>,
        frags |-> IF rcb THEN AppRawHandler(CStr(line), connected, tx) ELSE <<>>]

\* BleLink::_emitJson / _emitRaw and the body of the extraction loop for one
\* line: [line: the line extracted,
\*        json: documents handed to the structured handler,
\*        raw: strings handed to the raw handler, frags: fragments notified]
DispatchLine(line, jcb, rcb, connected, tx) ==
  LET p == DeserializeJson(line) IN
  IF ~p.err
  THEN IF jcb THEN [line |-> line, json |-> <<p.doc>>, raw |-> <<>>,
                    frags |-> AppJsonHandler(p.doc, connected, tx)]
              ELSE [line |-> line, json |-> <<>>, raw |-> <<>>, frags |-> <<>>]
  ELSE LET str == CStr(line) IN   \* String(line.c_str())
       IF rcb THEN [line |-> line, json |-> <<>>, raw |-> <<str>>,
                    frags |-> AppRawHandler(str, connected, tx)]
              ELSE [line |-> line, json |-> <<>>, raw |-> <<>>, frags |-> <<>>]

RECURSIVE DispatchAll(_, _, _, _, _)
\* the extraction loop's dispatches, one record per line, in extraction order
DispatchAll(ls, jcb, rcb, connected, tx) ==
  IF ls = <<>> THEN <<>>
  ELSE <<DispatchLine(Head(ls), jcb, rcb, connected, tx)>>
         \o DispatchAll(Tail(ls), jcb, rcb, connected, tx)

RECURSIVE Notified(_)
\* the fragments notified by a sequence of dispatches, in order
Notified(ds) == IF ds = <<>> THEN <<>> ELSE Head(ds).frags \o Notified(Tail(ds))

(* -------------------------------- state -------------------------------- *)
VARIABLES
  g_connected,   \* static bool g_connected
  g_needReinit,  \* static volatile bool g_needReinit
  g_rxBuf,       \* static std::string g_rxBuf
  g_server,      \* static NimBLEServer* g_server: "null", "live", "freed"
  g_tx,          \* static NimBLECharacteristic* g_tx: "null", "live", "freed"
  jsonCb,        \* BleLink::_jsonCb is set
  rawCb,         \* BleLink::_rawCb is set
  lastConn,      \* static uint32_t lastConn of onServerConnected
  lastDisc,      \* static uint32_t lastDisc of onServerDisconnected
  now,           \* millis()
  advertising,   \* the stack is advertising
  peers,         \* NimBLEServer::getConnectedCount()
  stale,         \* n: leading bytes of g_rxBuf that arrived on an earlier link,
                 \* by: how that link ended ("callback", "silent", "deinit")
  ev,            \* the last operation: its inputs, pre-state and outputs
  feed,          \* reassembly run: lines chosen, bytes not yet written, lines got
  task           \* the main task: pc, where loop() or _sendLine stands at a
                 \* delay; todo, the fragments _sendLine has still to notify

lib  == <<g_connected, g_needReinit, g_rxBuf, g_server, g_tx, jsonCb, rawCb,
          lastConn, lastDisc, now, advertising, peers, stale, ev>>
vars == <<g_connected, g_needReinit, g_rxBuf, g_server, g_tx, jsonCb, rawCb,
          lastConn, lastDisc, now, advertising, peers, stale, ev, feed, task>>

\* the main task is between operations
\* the main task is between operations; pc: where it is inside loop() or
\* _sendLine, todo: the fragments _sendLine has still to notify, hit: whether
\* the health check of the running loop() fired
Idle == [pc |-> "idle", todo |-> <<>>, hit |-> FALSE]

NoFeed == [mode |-> "none", lines |-> <<>>, rest |-> <<>>, frags |-> <<>>,
           got |-> <<>>]

NoStale == [n |-> 0, by |-> "none"]

\* the bytes of buf are left over from a link that ended by way
Stale(buf, way) == IF buf = <<>> THEN NoStale ELSE [n |-> Len(buf), by |-> way]

\* the record of an operation: op, the pre-state it read (conn: g_connected,
\* flag: g_needReinit, tx: g_tx, cnt: getConnectedCount(), buf: g_rxBuf), its
\* input (text; ptr: the pointer is not null) and what it did (ret: the value
\* returned, acc: the debounce accepted the callback,
\* hit: the health check fired, reinit: deinit and _initializeBLE ran,
\* frags: the fragments notified, disp: the dispatches, spliced: a line that
\* holds bytes of an earlier link reached a handler, and how that link ended)
Ev(op) ==
  [op |-> op, conn |-> g_connected, flag |-> g_needReinit, tx |-> g_tx,
   cnt |-> peers, ret |-> FALSE, acc |-> FALSE, hit |-> FALSE, reinit |-> FALSE, ptr |-> TRUE, text |-> <<>>,
   buf |-> <<>>, frags |-> <<>>, disp |-> <<>>, spliced |-> "no"]

\* state after construction of the BleLink object (before setup())
InitLib ==
  /\ g_connected = FALSE
  /\ g_needReinit = FALSE
  /\ g_rxBuf = <<>>
  /\ g_server = "null"
  /\ g_tx = "null"
  /\ jsonCb = FALSE
  /\ rawCb = FALSE
  /\ lastConn = 0
  /\ lastDisc = 0
  /\ now = 0
  /\ advertising = FALSE
  /\ peers = 0
  /\ stale = NoStale
  /\ ev = [op |-> "init", conn |-> FALSE, flag |-> FALSE, tx |-> "null",
           cnt |-> 0, ret |-> FALSE, acc |-> FALSE, hit |-> FALSE, reinit |-> FALSE, ptr |-> TRUE, text |-> <<>>,
           buf |-> <<>>, frags |-> <<>>, disp |-> <<>>, spliced |-> "no"]

Init == InitLib /\ feed = NoFeed /\ task = Idle

(* ------------------------------ operations ----------------------------- *)
\* delay(ms) and the passing of time between operations
Delay(ms) == now + ms <= MaxTime /\ now' = now + ms

Tick(ms) ==
  /\ Delay(ms)
  /\ UNCHANGED <<g_connected, g_needReinit, g_rxBuf, g_server, g_tx, jsonCb,
                 rawCb, lastConn, lastDisc, advertising, peers, stale, ev>>

\* BleLink::_initializeBLE
InitializeBLE ==
  /\ g_server' = "live"
  /\ g_tx' = "live"
  /\ advertising' = TRUE

\* BleLink::setup
Setup ==
  /\ g_server = "null"
  /\ InitializeBLE
  /\ ev' = Ev("setup")
  /\ UNCHANGED <<g_connected, g_needReinit, g_rxBuf, jsonCb, rawCb, lastConn,
                 lastDisc, now, peers, stale>>

\* mutant: a pending reinit is not cancelled
OnServerConnectedKeepFlag(adv) ==
  IF now - lastConn < DEBOUNCE
  THEN /\ ev' = Ev("onConnect")
       /\ advertising' = adv
       /\ UNCHANGED <<g_connected, g_needReinit, lastConn>>
  ELSE /\ lastConn' = now
       /\ g_connected' = TRUE
       /\ advertising' = FALSE
       /\ ev' = [Ev("onConnect") EXCEPT !.acc = TRUE]
       /\ UNCHANGED g_needReinit

\* onServerConnected (ServerCallbacks::onConnect); adv: whether the stack is
\* advertising when the callback is entered
OnServerConnected(adv) ==
  IF now - lastConn < DEBOUNCE
  THEN /\ ev' = Ev("onConnect")
       /\ advertising' = adv
       /\ UNCHANGED <<g_connected, g_needReinit, lastConn>>
  ELSE /\ lastConn' = now
       /\ g_connected' = TRUE
       /\ g_needReinit' = FALSE
       /\ advertising' = FALSE
       /\ ev' = [Ev("onConnect") EXCEPT !.acc = TRUE]

\* mutant: g_connected is not reset
OnServerDisconnectedKeepConn ==
  IF now - lastDisc < DEBOUNCE
  THEN /\ ev' = Ev("onDisconnect")
       /\ UNCHANGED <<g_connected, g_needReinit, g_rxBuf, lastDisc, advertising>>
  ELSE /\ lastDisc' = now
       /\ g_rxBuf' = <<>>
       /\ advertising' = TRUE
       /\ g_needReinit' = TRUE
       /\ ev' = [Ev("onDisconnect") EXCEPT !.acc = TRUE]
       /\ UNCHANGED g_connected

\* onServerDisconnected (ServerCallbacks::onDisconnect)
OnServerDisconnected ==
  IF now - lastDisc < DEBOUNCE
  THEN /\ ev' = Ev("onDisconnect")
       /\ UNCHANGED <<g_connected, g_needReinit, g_rxBuf, lastDisc, advertising>>
  ELSE /\ lastDisc' = now
       /\ g_connected' = FALSE
       /\ g_rxBuf' = <<>>
       /\ advertising' = TRUE
       /\ g_needReinit' = TRUE
       /\ ev' = [Ev("onDisconnect") EXCEPT !.acc = TRUE]

\* a central connects to the advertising stack; the connectable
\* advertisement ends with the connection and the stack calls the connect
\* callback
StackConnect ==
  /\ g_server = "live" /\ advertising /\ peers = 0
  /\ peers' = 1
  /\ OnServerConnected(FALSE)
  /\ UNCHANGED <<g_rxBuf, g_server, g_tx, jsonCb, rawCb, lastDisc, now, stale>>

\* the stack calls the connect callback once more for the same link
StackConnectAgain ==
  /\ g_server = "live" /\ peers = 1 /\ ev.op = "onConnect"
  /\ OnServerConnected(advertising)
  /\ UNCHANGED <<g_rxBuf, g_server, g_tx, jsonCb, rawCb, lastDisc, now,
                 peers, stale>>

\* the link ends and the stack calls the disconnect callback
StackDisconnect ==
  /\ g_server = "live" /\ peers = 1
  /\ peers' = 0
  /\ OnServerDisconnected
  /\ stale' = Stale(g_rxBuf', "callback")
  /\ UNCHANGED <<g_server, g_tx, jsonCb, rawCb, lastConn, now>>

\* the stack calls the disconnect callback once more for the ended link
StackDisconnectAgain ==
  /\ g_server = "live" /\ peers = 0 /\ ev.op = "onDisconnect"
  /\ OnServerDisconnected
  /\ stale' = Stale(g_rxBuf', "callback")
  /\ UNCHANGED <<g_server, g_tx, jsonCb, rawCb, lastConn, now, peers>>

\* the link ends and no callback is called
SilentLoss ==
  /\ g_server = "live" /\ peers = 1
  /\ peers' = 0
  /\ stale' = Stale(g_rxBuf, "silent")
  /\ ev' = Ev("linkLost")
  /\ UNCHANGED <<g_connected, g_needReinit, g_rxBuf, g_server, g_tx, jsonCb,
                 rawCb, lastConn, lastDisc, now, advertising>>

\* mutant: the comparison of the peer count is inverted
HealthCheckInverted(connected, server, cnt) ==
  connected /\ server # "null" /\ cnt # 0

\* the health check of BleLink::loop
\* if (g_connected && g_server && g_server->getConnectedCount() == 0)
HealthCheck(connected, server, cnt) == connected /\ server # "null" /\ cnt = 0

\* mutant: the reinitialization leaves the reinit flag set
LoopKeepFlag ==
  LET hit == HealthCheck(g_connected, g_server, peers)
      c1  == IF hit THEN FALSE ELSE g_connected
      r1  == IF hit THEN TRUE ELSE g_needReinit
  IN  /\ g_connected' = c1
      /\ g_needReinit' = r1
      /\ IF r1
         THEN /\ Delay(SETTLE_PRE + SETTLE_POST)
              /\ peers' = 0
              /\ stale' = IF peers > 0 THEN Stale(g_rxBuf, "deinit") ELSE stale
              /\ InitializeBLE
         ELSE UNCHANGED <<now, peers, stale, g_server, g_tx, advertising>>
      /\ ev' = [Ev("loop") EXCEPT !.hit = hit, !.reinit = r1]
      /\ UNCHANGED <<g_rxBuf, jsonCb, rawCb, lastConn, lastDisc>>

\* BleLink::loop: health check, then the reinitialization when flagged
\* (deinit ends any link the stack still holds)
Loop ==
  LET hit == HealthCheck(g_connected, g_server, peers)
      c1  == IF hit THEN FALSE ELSE g_connected
      r1  == IF hit THEN TRUE ELSE g_needReinit
  IN  /\ g_connected' = c1
      /\ g_needReinit' = FALSE
      /\ IF r1
         THEN /\ Delay(SETTLE_PRE + SETTLE_POST)
              /\ peers' = 0
              /\ stale' = IF peers > 0 THEN Stale(g_rxBuf, "deinit") ELSE stale
              /\ InitializeBLE
         ELSE UNCHANGED <<now, peers, stale, g_server, g_tx, advertising>>
      /\ ev' = [Ev("loop") EXCEPT !.hit = hit, !.reinit = r1]
      /\ UNCHANGED <<g_rxBuf, jsonCb, rawCb, lastConn, lastDisc>>

\* handleWrite (CharCallbacks::onWrite) for the characteristic value chunk,
\* with the handlers' replies sent from inside the callback
HandleWrite(chunk) ==
  IF chunk = <<>>
  THEN /\ ev' = [Ev("onWrite") EXCEPT !.buf = g_rxBuf]
       /\ UNCHANGED <<g_rxBuf, stale>>
  ELSE LET x == ExtractLoop(g_rxBuf \o chunk)
           d == DispatchAll(x.lines, jsonCb, rawCb, g_connected, g_tx # "null")
       IN  /\ g_rxBuf' = x.rest
           /\ stale' = IF x.lines = <<>> THEN stale ELSE NoStale
           /\ ev' = [Ev("onWrite") EXCEPT
                       !.text = chunk, !.buf = g_rxBuf, !.disp = d,
                       !.frags = Notified(d),
                       !.spliced = IF /\ stale.n > 0
                                      /\ d # <<>>
                                      /\ d[1].json \o d[1].raw # <<>>
                                   THEN stale.by ELSE "no"]

\* a connected central writes chunk to the RX characteristic
WriteCb(chunk) ==
  /\ g_server = "live" /\ peers = 1
  /\ HandleWrite(chunk)
  /\ UNCHANGED <<g_connected, g_needReinit, g_server, g_tx, jsonCb, rawCb,
                 lastConn, lastDisc, now, advertising, peers>>

\* BleLink::sendRaw(cstr); ptr = FALSE is the null pointer
SendRaw(ptr, cstr) ==
  LET fr == IF ptr THEN SendRawFrags(cstr, g_connected, g_tx # "null") ELSE <<>>
  IN  /\ ev' = [Ev("sendRaw") EXCEPT !.ptr = ptr, !.frags = fr,
                                      !.text = IF ptr THEN cstr ELSE <<>>]
      /\ UNCHANGED <<g_connected, g_needReinit, g_rxBuf, g_server, g_tx, jsonCb,
                     rawCb, lastConn, lastDisc, now, advertising, peers, stale>>

\* BleLink::sendJson(doc)
SendJson(doc) ==
  LET fr == SendJsonFrags(doc, g_connected, g_tx # "null")
  IN  /\ ev' = [Ev("sendJson") EXCEPT !.text = SerializeJson(doc), !.frags = fr]
      /\ UNCHANGED <<g_connected, g_needReinit, g_rxBuf, g_server, g_tx, jsonCb,
                     rawCb, lastConn, lastDisc, now, advertising, peers, stale>>

\* BleLink::isConnected
IsConnected ==
  /\ ev' = [Ev("isConnected") EXCEPT !.ret = g_connected]
  /\ UNCHANGED <<g_connected, g_needReinit, g_rxBuf, g_server, g_tx, jsonCb,
                 rawCb, lastConn, lastDisc, now, advertising, peers, stale>>

\* mutant: disconnect() drops the local connection state
DisconnectHard ==
  /\ g_connected' = FALSE
  /\ ev' = Ev("disconnect")
  /\ UNCHANGED <<g_needReinit, g_rxBuf, g_server, g_tx, jsonCb,
                 rawCb, lastConn, lastDisc, now, advertising, peers, stale>>

\* BleLink::disconnect: its body is empty
Disconnect ==
  /\ ev' = Ev("disconnect")
  /\ UNCHANGED <<g_connected, g_needReinit, g_rxBuf, g_server, g_tx, jsonCb,
                 rawCb, lastConn, lastDisc, now, advertising, peers, stale>>

\* BleLink::onReceiveJson(cb); cb = FALSE is an empty std::function
OnReceiveJson(cb) ==
  /\ jsonCb' = cb
  /\ ev' = Ev("onReceiveJson")
  /\ UNCHANGED <<g_connected, g_needReinit, g_rxBuf, g_server, g_tx, rawCb,
                 lastConn, lastDisc, now, advertising, peers, stale>>

\* BleLink::onReceiveRaw(cb)
OnReceiveRaw(cb) ==
  /\ rawCb' = cb
  /\ ev' = Ev("onReceiveRaw")
  /\ UNCHANGED <<g_connected, g_needReinit, g_rxBuf, g_server, g_tx, jsonCb,
                 lastConn, lastDisc, now, advertising, peers, stale>>

\* BleLink::loop up to the end of delay(150): the health check, and when a
\* reinit is due the flag is cleared and the task sleeps
LoopStart ==
  LET hit == HealthCheck(g_connected, g_server, peers)
      c1  == IF hit THEN FALSE ELSE g_connected
      r1  == IF hit THEN TRUE ELSE g_needReinit
  IN  /\ task.pc = "idle"
      /\ g_connected' = c1
      /\ g_needReinit' = FALSE
      /\ IF r1
         THEN /\ Delay(SETTLE_PRE)
              /\ task' = [pc |-> "settle1", todo |-> <<>>, hit |-> hit]
              /\ ev' = [Ev("loopEnter") EXCEPT !.hit = hit]
         ELSE /\ UNCHANGED now
              /\ task' = Idle
              /\ ev' = Ev("loop")
      /\ UNCHANGED <<g_rxBuf, g_server, g_tx, jsonCb, rawCb, lastConn,
                     lastDisc, advertising, peers, stale>>

\* BleLink::loop, NimBLEDevice::deinit() and delay(250): the stack instance
\* is torn down with its server, characteristics, advertisement and link
LoopDeinit ==
  /\ task.pc = "settle1"
  /\ Delay(SETTLE_POST)
  /\ g_server' = "freed"
  /\ g_tx' = "freed"
  /\ advertising' = FALSE
  /\ peers' = 0
  /\ stale' = IF peers > 0 THEN Stale(g_rxBuf, "deinit") ELSE stale
  /\ ev' = Ev("deinit")
  /\ task' = [task EXCEPT !.pc = "settle2"]
  /\ UNCHANGED <<g_connected, g_needReinit, g_rxBuf, jsonCb, rawCb, lastConn,
                 lastDisc>>

\* BleLink::loop, _initializeBLE() and return
LoopInit ==
  /\ task.pc = "settle2"
  /\ InitializeBLE
  /\ ev' = [Ev("loop") EXCEPT !.hit = task.hit, !.reinit = TRUE]
  /\ task' = Idle
  /\ UNCHANGED <<g_connected, g_needReinit, g_rxBuf, jsonCb, rawCb, lastConn,
                 lastDisc, now, peers, stale>>

\* BleLink::sendRaw(cstr) up to the end of the first delay(2) of _sendLine:
\* the gate is read, the first fragment is notified
SendStart(cstr) ==
  LET fr == SendRawFrags(cstr, g_connected, g_tx # "null")
  IN  /\ task.pc = "idle"
      /\ ev' = [Ev("sendRaw") EXCEPT
                  !.text = cstr,
                  !.frags = IF fr = <<>> THEN <<>> ELSE <<Head(fr)>>]
      /\ task' = IF Len(fr) > 1
                 THEN [pc |-> "pacing", todo |-> Tail(fr), hit |-> FALSE]
                 ELSE Idle
      /\ UNCHANGED <<g_connected, g_needReinit, g_rxBuf, g_server, g_tx, jsonCb,
                     rawCb, lastConn, lastDisc, now, advertising, peers, stale>>

\* _sendLine, one more turn of its for loop: setValue, notify, delay(2)
SendNext ==
  /\ task.pc = "pacing"
  /\ ev' = [Ev("notify") EXCEPT !.frags = <<Head(task.todo)>>]
  /\ task' = IF Len(task.todo) > 1 THEN [task EXCEPT !.todo = Tail(@)] ELSE Idle
  /\ UNCHANGED <<g_connected, g_needReinit, g_rxBuf, g_server, g_tx, jsonCb,
                 rawCb, lastConn, lastDisc, now, advertising, peers, stale>>

(* ------------------------------- inputs -------------------------------- *)
InBytes == {NUL, NL, 49, 120}

SeqsUpTo(S, n) == UNION {[1..k -> S] : k \in 0..n}

\* characteristic values written by the central in the data specification
Chunks == SeqsUpTo(InBytes, MaxChunk) \cup {Append(PING, NL)}

\* characteristic values written by the central in the lifecycle specification
LifeChunks == {<<120>>, <<NL>>, <<120, NL>>, Append(PING, NL)}

\* texts the application sends in the lifecycle specification
ShortTexts == {<<120>>, <<120, NL>>}

Docs == {10}

TickStep == 200

(* ------------------------ lifecycle specification ---------------------- *)
Next ==
  \/ Setup /\ UNCHANGED <<feed, task>>
  \/ Tick(TickStep) /\ UNCHANGED <<feed, task>>
  \/ StackConnect /\ UNCHANGED <<feed, task>>
  \/ StackConnectAgain /\ UNCHANGED <<feed, task>>
  \/ StackDisconnect /\ UNCHANGED <<feed, task>>
  \/ StackDisconnectAgain /\ UNCHANGED <<feed, task>>
  \/ SilentLoss /\ UNCHANGED <<feed, task>>
  \/ Loop /\ UNCHANGED <<feed, task>>
  \/ \E chunk \in LifeChunks :
       WriteCb(chunk) /\ Len(g_rxBuf') <= MaxBuf /\ UNCHANGED <<feed, task>>
  \/ \E t \in ShortTexts : SendRaw(TRUE, t) /\ UNCHANGED <<feed, task>>
  \/ SendRaw(FALSE, <<>>) /\ UNCHANGED <<feed, task>>
  \/ \E doc \in Docs : SendJson(doc) /\ UNCHANGED <<feed, task>>
  \/ \E cb \in BOOLEAN : OnReceiveJson(cb) /\ UNCHANGED <<feed, task>>
  \/ \E cb \in BOOLEAN : OnReceiveRaw(cb) /\ UNCHANGED <<feed, task>>
  \/ IsConnected /\ UNCHANGED <<feed, task>>
  \/ Disconnect /\ UNCHANGED <<feed, task>>

Spec == Init /\ [][Next]_vars

(* -------------------------- data specification ------------------------- *)
\* a link that the stack has opened after setup(): the connect callback was
\* accepted (connected) or suppressed by the debounce (not connected)
InitLink(connected, jcb, rcb) ==
  /\ g_connected = connected
  /\ g_needReinit = FALSE
  /\ g_rxBuf = <<>>
  /\ g_server = "live"
  /\ g_tx = "live"
  /\ jsonCb = jcb
  /\ rawCb = rcb
  /\ now = (IF connected THEN DEBOUNCE ELSE 0)
  /\ lastConn = now
  /\ lastDisc = 0
  /\ advertising = FALSE
  /\ peers = 1
  /\ stale = NoStale
  /\ ev = [op |-> "onConnect", conn |-> FALSE, flag |-> FALSE, tx |-> "live",
           cnt |-> 1, ret |-> FALSE, acc |-> connected, hit |-> FALSE, reinit |-> FALSE, ptr |-> TRUE, text |-> <<>>,
           buf |-> <<>>, frags |-> <<>>, disp |-> <<>>, spliced |-> "no"]

InitData ==
  /\ \E c \in BOOLEAN, j \in BOOLEAN, r \in BOOLEAN : InitLink(c, j, r)
  /\ feed = NoFeed
  /\ task = Idle

\* the receive path for every chunk over the byte alphabet
NextData ==
  \/ \E chunk \in Chunks :
       WriteCb(chunk) /\ Len(g_rxBuf') <= MaxBuf /\ UNCHANGED <<feed, task>>
  \/ \E cb \in BOOLEAN : OnReceiveJson(cb) /\ UNCHANGED <<feed, task>>
  \/ \E cb \in BOOLEAN : OnReceiveRaw(cb) /\ UNCHANGED <<feed, task>>

SpecData == InitData /\ [][NextData]_vars

(* -------------------------- send specification ------------------------- *)
\* a NUL-free text of n bytes whose bytes tell their position, with a
\* trailing newline when nl
Text(n, nl) ==
  LET body == [i \in 1..n |-> 33 + (i % 23)]
  IN  IF nl THEN Append(body, NL) ELSE body

LongTexts == {Text(n, nl) : n \in 0..MaxSendLen, nl \in BOOLEAN}

SendDocs == {0, 7, 10, 4711}

InitSend ==
  /\ \E c \in BOOLEAN : InitLink(c, TRUE, TRUE)
  /\ feed = NoFeed
  /\ task = Idle

NextSend ==
  \/ \E t \in LongTexts : SendRaw(TRUE, t) /\ UNCHANGED <<feed, task>>
  \/ SendRaw(FALSE, <<>>) /\ UNCHANGED <<feed, task>>
  \/ \E doc \in SendDocs : SendJson(doc) /\ UNCHANGED <<feed, task>>

SpecSend == InitSend /\ [][NextSend]_vars

(* ----------------------- reassembly specification ---------------------- *)
RECURSIVE LinesOf(_, _)
\* the lines L1..Ln of the byte stream L1\n..Ln\n, read byte by byte
\* (cur: the bytes of the line being read)
LinesOf(stream, cur) ==
  IF stream = <<>> THEN <<>>
  ELSE IF Head(stream) = NL THEN <<cur>> \o LinesOf(Tail(stream), <<>>)
  ELSE LinesOf(Tail(stream), Append(cur, Head(stream)))

\* byte streams of complete lines
Streams ==
  {st \in SeqsUpTo(InBytes, MaxStream) : EndsWithNL(st)}
    \cup {Text(n, TRUE) : n \in 0..MaxSendLen}

\* the lines a run delivered, from the records of one write
LinesGot(ds) == [i \in 1..Len(ds) |-> ds[i].line]

\* a run writes the stream of lines feed.lines to the RX characteristic:
\* feed.rest are the bytes to be cut into chunks at any place, feed.frags the
\* fragments of the peer's outbound chunker still to be written
InitFeed ==
  /\ InitLink(TRUE, TRUE, TRUE)
  /\ task = Idle
  /\ \E st \in Streams :
       \/ feed = [mode |-> "split", lines |-> LinesOf(st, <<>>), rest |-> st,
                  frags |-> <<>>, got |-> <<>>]
       \/ /\ Find(st, NUL, 1) = 0
          /\ Find(st, NL, 1) = Len(st)
          /\ feed = [mode |-> "chunker", lines |-> LinesOf(st, <<>>),
                     rest |-> <<>>,
                     frags |-> SendRawFrags(SubSeq(st, 1, Len(st) - 1), TRUE, TRUE),
                     got |-> <<>>]

\* the next k bytes of the stream arrive as one chunk
FeedSplit(k) ==
  /\ k <= Len(feed.rest)
  /\ WriteCb(SubSeq(feed.rest, 1, k))
  /\ feed' = [feed EXCEPT !.rest = SubSeq(feed.rest, k + 1, Len(feed.rest)),
                          !.got = feed.got \o LinesGot(ev'.disp)]
  /\ UNCHANGED task

\* the next fragment of the peer's chunker arrives as one chunk
FeedFragment ==
  /\ feed.frags # <<>>
  /\ WriteCb(Head(feed.frags))
  /\ feed' = [feed EXCEPT !.frags = Tail(feed.frags),
                          !.got = feed.got \o LinesGot(ev'.disp)]
  /\ UNCHANGED task

NextFeed ==
  \/ \E k \in 1..(MaxSendLen + 2) : FeedSplit(k)
  \/ FeedFragment

SpecFeed == InitFeed /\ [][NextFeed]_vars

(* --------------- poll and sends interleaved with callbacks ------------- *)
\* the state main.cpp's setup() leaves: both handlers registered, the stack
\* initialized and advertising
InitIlv ==
  /\ g_connected = FALSE
  /\ g_needReinit = FALSE
  /\ g_rxBuf = <<>>
  /\ g_server = "live"
  /\ g_tx = "live"
  /\ jsonCb = TRUE
  /\ rawCb = TRUE
  /\ lastConn = 0
  /\ lastDisc = 0
  /\ now = 0
  /\ advertising = TRUE
  /\ peers = 0
  /\ stale = NoStale
  /\ ev = [op |-> "setup", conn |-> FALSE, flag |-> FALSE, tx |-> "null",
           cnt |-> 0, ret |-> FALSE, acc |-> FALSE, hit |-> FALSE,
           reinit |-> FALSE, ptr |-> TRUE, text |-> <<>>, buf |-> <<>>,
           frags |-> <<>>, disp |-> <<>>, spliced |-> "no"]
  /\ feed = NoFeed
  /\ task = Idle

\* texts the main task sends: two and three fragments
IlvTexts == {Text(CHUNK + 1, FALSE), Text(2 * CHUNK, FALSE)}

\* the main task runs loop() and sendRaw step by step; the callbacks of the
\* stack's task run whole at any of its delays while the stack is up
NextIlv ==
  \/ task.pc = "idle" /\ Tick(TickStep) /\ UNCHANGED <<feed, task>>
  \/ LoopStart /\ UNCHANGED feed
  \/ LoopDeinit /\ UNCHANGED feed
  \/ LoopInit /\ UNCHANGED feed
  \/ \E t \in IlvTexts : SendStart(t) /\ UNCHANGED feed
  \/ SendNext /\ UNCHANGED feed
  \/ StackConnect /\ UNCHANGED <<feed, task>>
  \/ StackDisconnect /\ UNCHANGED <<feed, task>>
  \/ SilentLoss /\ UNCHANGED <<feed, task>>
  \/ WriteCb(Append(PING, NL)) /\ UNCHANGED <<feed, task>>

SpecIlv == InitIlv /\ [][NextIlv]_vars

(* ================================ claims =============================== *)
IsPrefix(a, b) == Len(a) <= Len(b) /\ a = SubSeq(b, 1, Len(a))

FeedDone == feed.rest = <<>> /\ feed.frags = <<>>

Sizes(fr) == [i \in 1..Len(fr) |-> Len(fr[i])]

IsSend == ev.op \in {"sendRaw", "sendJson"}

\* C1: the lines L1..Ln of a stream L1\n..Ln\n written in chunks cut at any
\* place reach dispatch in order, none omitted, duplicated or reordered: what
\* was dispatched is at every moment a prefix of L1..Ln, and all of it once
\* the last chunk is written
Thm_C1 ==
  feed.mode = "split" =>
    /\ IsPrefix(feed.got, feed.lines)
    /\ FeedDone => feed.got = feed.lines

\* C1 witness: a stream of two lines is written, both in the last chunk
Wit_C1 ==
  /\ feed.mode = "split" /\ FeedDone
  /\ Len(feed.lines) = 2 /\ feed.got = feed.lines
  /\ feed.lines[1] # feed.lines[2]
  /\ Len(ev.disp) = 2

\* C8: a line L (no newline in it) written as the outbound chunker's
\* fragments of L, or as L\n cut at any place, into an empty buffer yields
\* the one line L and leaves the buffer empty; until the last fragment is
\* written nothing is dispatched and the buffer holds the bytes written
Thm_C8 ==
  Len(feed.lines) = 1 =>
    LET todo == feed.rest \o Flatten(feed.frags) IN
    IF todo = <<>>
    THEN feed.got = feed.lines /\ g_rxBuf = <<>>
    ELSE feed.got = <<>> /\ g_rxBuf \o todo = Append(feed.lines[1], NL)

\* C8 witness: the three fragments of a line of more than 40 bytes are written
Wit_C8 ==
  /\ feed.mode = "chunker" /\ FeedDone
  /\ Len(feed.lines) = 1 /\ Len(feed.lines[1]) > 40
  /\ feed.got = feed.lines
  /\ g_rxBuf = <<>>

\* the bytes a send must put on the wire: the text, and a newline when the
\* text does not end with one
Wire(text) == IF text # <<>> /\ text[Len(text)] = 10 THEN text ELSE text \o <<10>>

\* C6: a text sent while Connected goes out as fragments of 1..20 bytes, all
\* but the last of exactly 20 bytes, whose concatenation in order is the text
\* followed by a newline unless it ends with one
Thm_C6 ==
  (IsSend /\ ev.conn /\ ev.ptr) =>
    /\ ev.frags # <<>>
    /\ \A i \in 1..Len(ev.frags) : Len(ev.frags[i]) >= 1 /\ Len(ev.frags[i]) <= 20
    /\ \A i \in 1..(Len(ev.frags) - 1) : Len(ev.frags[i]) = 20
    /\ Flatten(ev.frags) = Wire(ev.text)

\* C6 witness: a text of more than 40 bytes that ends with a newline was sent
Wit_C6 ==
  /\ ev.op = "sendRaw" /\ ev.conn /\ ev.ptr
  /\ Len(ev.text) > 40 /\ ev.text[Len(ev.text)] = 10
  /\ Len(ev.frags) = 3

\* C7 as stated: a 47-byte line handed to sendRaw while Connected goes out
\* as fragments of 20, 20 and 7 bytes
Orig_C7 ==
  (ev.op = "sendRaw" /\ ev.conn /\ ev.ptr /\ Len(ev.text) = 47) =>
    Sizes(ev.frags) = <<20, 20, 7>>

\* C7 amended: a line of 47 bytes on the wire, its newline counted (46 bytes
\* of text without a newline, or 47 bytes that end with one), goes out as
\* fragments of 20, 20 and 7 bytes; 47 bytes of text without the newline go
\* out as 20, 20 and 8
Thm_C7 ==
  (ev.op = "sendRaw" /\ ev.conn /\ ev.ptr) =>
    /\ Len(Wire(ev.text)) = 47 => Sizes(ev.frags) = <<20, 20, 7>>
    /\ (Len(ev.text) = 47 /\ ev.text[47] # 10) => Sizes(ev.frags) = <<20, 20, 8>>

\* C7 witness: 46 bytes of text without a newline were sent
Wit_C7 ==
  /\ ev.op = "sendRaw" /\ ev.conn /\ ev.ptr
  /\ Len(ev.text) = 46 /\ ev.text[46] # 10
  /\ Sizes(ev.frags) = <<20, 20, 7>>

\* C2 as stated: after every call of the disconnect callback the receive
\* buffer is empty, and no line that holds bytes received before a disconnect
\* callback reaches a handler
Claim_C2 ==
  /\ ev.op = "onDisconnect" => g_rxBuf = <<>>
  /\ ev.spliced # "callback"

\* C3: a poll that finds the local state Connected and zero connected peers
\* leaves Connected, raises the reinit flag and carries the reinitialization
\* out itself: when it returns the stack is rebuilt and advertising
Thm_C3 ==
  (ev.op = "loop" /\ ev.conn /\ ev.cnt = 0) =>
    /\ ~g_connected
    /\ ev.hit
    /\ ev.reinit
    /\ g_server = "live" /\ g_tx = "live" /\ advertising

\* C3 witness: the link was lost without a callback and poll has run
Wit_C3 ==
  /\ ev.op = "loop" /\ ev.conn /\ ev.cnt = 0
  /\ lastDisc = 0
  /\ ev.reinit /\ ~g_connected

RECURSIVE Replies(_)
\* the bytes the handlers of main.cpp send for the dispatches ds
Replies(ds) ==
  IF ds = <<>> THEN <<>>
  ELSE (IF Head(ds).raw = <<PING>> THEN PONG \o <<10>> ELSE <<>>)
         \o Replies(Tail(ds))

\* C4: a send issued while not Connected notifies nothing, and nothing is
\* queued for later: no operation notifies while not Connected, only a send
\* or a handler's reply notifies at all, and what a send notifies is the text
\* of that very call
Thm_C4 ==
  /\ (IsSend /\ ~ev.conn) => ev.frags = <<>>
  /\ ~ev.conn => ev.frags = <<>>
  /\ ev.op \notin {"sendRaw", "sendJson", "onWrite"} => ev.frags = <<>>
  /\ (IsSend /\ ev.conn /\ ev.ptr) => Flatten(ev.frags) = Wire(ev.text)
  /\ (ev.op = "onWrite" /\ ev.conn) => Flatten(ev.frags) = Replies(ev.disp)

\* C4 witness: after a disconnect a text is handed to sendRaw and dropped
Wit_C4 ==
  /\ ev.op = "sendRaw" /\ ~ev.conn /\ ev.ptr
  /\ ev.text # <<>> /\ ev.frags = <<>>
  /\ lastDisc > 0 /\ g_server = "live"

\* C5 as stated: every extracted line takes one handler path: the structured
\* handler gets the parsed document iff the line parses, else the raw handler
\* gets the line unmodified; never both; neither only when no handler is
\* registered for the variant, and the lines after it are still dispatched
Claim_C5 ==
  ev.op = "onWrite" =>
    /\ \A i \in DOMAIN ev.disp :
         LET d == ev.disp[i]
             p == DeserializeJson(d.line)
         IN  /\ Len(d.json) + Len(d.raw) <= 1
             /\ d.json # <<>> => ~p.err /\ d.json = <<p.doc>>
             /\ d.raw # <<>> => p.err /\ d.raw = <<d.line>>
             /\ (d.json = <<>> /\ d.raw = <<>>) =>
                  (IF p.err THEN ~rawCb ELSE ~jsonCb)
    /\ Len(ev.disp) = Cardinality({i \in 1..Len(ev.buf \o ev.text) :
                                     (ev.buf \o ev.text)[i] = 10})

\* C9: a newline that is the first byte of the buffer, or that follows a
\* newline, yields an empty line, and an empty line is dispatched like any
\* other: the raw handler, when registered, is called once with the empty text
Thm_C9 ==
  ev.op = "onWrite" =>
    LET s == ev.buf \o ev.text IN
    /\ Cardinality({i \in DOMAIN ev.disp : ev.disp[i].line = <<>>})
         = Cardinality({i \in 1..Len(s) : s[i] = 10 /\ (i = 1 \/ s[i - 1] = 10)})
    /\ \A i \in DOMAIN ev.disp :
         ev.disp[i].line = <<>> =>
           /\ ev.disp[i].json = <<>>
           /\ ev.disp[i].raw = IF rawCb THEN << <<>> >> ELSE <<>>

\* C9 witness: the chunk "\n\n" arrives on an empty buffer and the raw
\* handler is called for each of the two empty lines
Wit_C9 ==
  /\ ev.op = "onWrite" /\ ev.buf = <<>> /\ ev.text = <<10, 10>>
  /\ rawCb
  /\ Len(ev.disp) = 2
  /\ ev.disp[1].raw = << <<>> >> /\ ev.disp[2].raw = << <<>> >>

\* C10 as stated: on every entry into Disconnected-Pending-Reinit, by the
\* disconnect callback or by the health check of poll, the receive buffer is
\* cleared, advertising is restarted and the reinit flag is set, and no line
\* that holds bytes received before a silent disconnect reaches a handler
Claim_C10 ==
  /\ ((ev.op = "onDisconnect" /\ ev.acc) \/ (ev.op = "loop" /\ ev.hit)) =>
       /\ g_rxBuf = <<>>
       /\ advertising
       /\ g_needReinit \/ ev.reinit
  /\ ev.spliced # "silent"

\* C11: a poll that finds the reinit flag set (or raises it in its health
\* check) clears it, runs deinit and the full _initializeBLE, and returns in
\* Advertising: flag clear, stack objects rebuilt, advertising on, no link,
\* not Connected; a poll that finds no flag and no lost link rebuilds nothing
Thm_C11 ==
  ev.op = "loop" =>
    /\ (ev.flag \/ ev.hit) =>
         /\ ev.reinit
         /\ ~g_needReinit
         /\ g_server = "live" /\ g_tx = "live"
         /\ advertising
         /\ peers = 0
         /\ ~g_connected
    /\ ev.reinit => (ev.flag \/ ev.hit)
    /\ ~g_needReinit

\* C11 witness: a disconnect callback set the flag and poll has reinitialized
Wit_C11 ==
  /\ ev.op = "loop" /\ ev.flag /\ ~ev.hit /\ ev.reinit
  /\ advertising /\ ~g_needReinit /\ ~g_connected

\* C12: after an accepted connect callback the state is Connected,
\* advertising is stopped and the reinit flag is clear, and a poll that runs
\* while Connected with the link up rebuilds nothing and leaves the link up
Thm_C12 ==
  /\ (ev.op = "onConnect" /\ ev.acc) =>
       g_connected /\ ~advertising /\ ~g_needReinit
  /\ (ev.op = "loop" /\ ev.conn /\ ev.cnt = 1) =>
       ~ev.reinit /\ g_connected /\ peers = 1 /\ g_server = "live"

\* C12 witness: a connect callback is accepted while a reinit is pending
Wit_C12 ==
  /\ ev.op = "onConnect" /\ ev.acc /\ ev.flag
  /\ g_connected /\ ~g_needReinit

\* C13 as stated: with poll being called, every loss of the link leads to a
\* state that is not Connected and advertising; a poll is idempotent while
\* there is no link, so this is the state in which any poll returns that ran
\* with no link
Claim_C13 ==
  (g_server = "live" /\ ev.op = "loop" /\ peers = 0) =>
    ~g_connected /\ advertising

\* C14 as stated: a callback that the debounce suppresses leaves the
\* connection state and the reinit flag as they were, and is a duplicate: the
\* callback of a link that opens (no peer before) or closes (a peer before)
\* is accepted, one entry for one transition
Claim_C14 ==
  /\ (ev.op \in {"onConnect", "onDisconnect"} /\ ~ev.acc) =>
       g_connected = ev.conn /\ g_needReinit = ev.flag
  /\ (ev.op = "onConnect" /\ ev.cnt = 0) => ev.acc
  /\ (ev.op = "onDisconnect" /\ ev.cnt = 1) => ev.acc

\* index of the last newline of s, 0 when it has none
LastNL(s) ==
  LET at == {i \in 1..Len(s) : s[i] = NL}
  IN  IF at = {} THEN 0 ELSE CHOOSE i \in at : \A j \in at : j <= i

\* C15: when a write callback returns, the receive buffer is what follows
\* the last newline of (buffer before + chunk), all of it when there is no
\* newline; the buffer never holds a newline at rest; an empty chunk changes
\* nothing
Thm_C15 ==
  /\ \A i \in 1..Len(g_rxBuf) : g_rxBuf[i] # NL
  /\ ev.op = "onWrite" =>
       LET s == ev.buf \o ev.text IN
       /\ g_rxBuf = SubSeq(s, LastNL(s) + 1, Len(s))
       /\ ev.text = <<>> => (g_rxBuf = ev.buf /\ ev.disp = <<>> /\ ev.frags = <<>>)

\* C15 witness: a chunk with a newline in its middle arrives on a partial line
Wit_C15 ==
  /\ ev.op = "onWrite" /\ ev.buf # <<>>
  /\ Len(ev.text) = 2 /\ ev.text[1] = NL /\ ev.text[2] # NL
  /\ g_rxBuf = <<ev.text[2]>>
  /\ Len(ev.disp) = 1

\* C16: sendJson, sendRaw, onReceiveJson, onReceiveRaw, isConnected,
\* disconnect() and the write callback leave the connection state and the
\* reinit flag unchanged, and all of them but the write callback leave the
\* receive buffer unchanged
Thm_C16 ==
  [][(ev'.op \in {"sendRaw", "sendJson", "onReceiveJson", "onReceiveRaw",
                  "isConnected", "disconnect", "onWrite"}) =>
       /\ g_connected' = g_connected
       /\ g_needReinit' = g_needReinit
       /\ ev'.op # "onWrite" => g_rxBuf' = g_rxBuf]_vars

\* C16 witness: disconnect() was called while Connected with a partial line
\* buffered
Wit_C16 ==
  /\ ev.op = "disconnect" /\ ev.conn
  /\ g_connected /\ g_rxBuf # <<>>

\* C17 as stated: when a connect callback returns isConnected() is true, when
\* a disconnect callback returns it is false
Claim_C17 ==
  /\ ev.op = "onConnect" => g_connected
  /\ ev.op = "onDisconnect" => ~g_connected

\* C18: the reinit flag and the Connected state are never both set, and a
\* poll that rebuilds the stack returns not Connected; it found the state
\* Connected only when its own health check ended that state first
Thm_C18 ==
  /\ ~(g_needReinit /\ g_connected)
  /\ (ev.op = "loop" /\ ev.reinit) => (~g_connected /\ (ev.conn => ev.hit))

\* C18 witness: after a link, a reinit is pending and the state is not
\* Connected
Wit_C18 ==
  /\ g_needReinit /\ ~g_connected
  /\ lastConn > 0 /\ ev.op = "onDisconnect" /\ ev.conn

\* C19 as stated: with callbacks interleaving with poll at its settle
\* delays, every fragment is notified on a transmit characteristic of a live
\* stack instance, nothing runs between deinit and the end of the
\* reinitialization, and a poll that reinitialized returns not Connected
Claim_C19 ==
  /\ ev.frags # <<>> => ev.tx = "live"
  /\ task.pc = "settle2" => ev.op = "deinit"
  /\ (ev.op = "loop" /\ ev.reinit) => ~g_connected

\* C20 as stated: every fragment after the first is notified only while the
\* state is still Connected
Claim_C20 ==
  ev.op = "notify" => ev.conn
====
